---- MODULE Spec2Model ----
(***************************************************************************)
(* A model of examples/simple.py of web3-flashbots: the bundle lifecycle   *)
(* of main() (build two transfers, then loop: read head, send_bundle,      *)
(* sleep, the two stats queries, wait, receipts) and of simulate_bundle(). *)
(* The chain RPC and the relay are the environment: the chain head grows,  *)
(* and every call may answer or fail.  The flashbots package that serves   *)
(* w3.flashbots.* is not among the sources; the operators that stand for   *)
(* it follow its contract in the design document and are marked so.        *)
(***************************************************************************)
EXTENDS Integers, Sequences, FiniteSets, TLC

\* ------------------------------------------------------------------ bounds
\* The chain head is followed up to this block number.
MaxHead == 23
\* At most this many send_bundle submissions of one lifecycle are followed.
MaxAttempts == 2
\* The identifiers uuid4() can draw from.
NumUuids == 2
\* A receipt is looked for in the first MinedSpan blocks after the head read.
MinedSpan == 2

\* ------------------------------------------------------- program constants
\* target_block_number=block + 10
Lookahead == 10
\* the block number the two messages name: block+1
ReportedOffset == 1

UUIDs == 1..NumUuids
\* The sender's transaction count, as the chain may report it.
Nonces == {0, 7}

\* No exception.
None == [type |-> "None", code |-> 0, message |-> "", site |-> ""]

\* Exception e as raised by the call at `site`.
Exc(e, site) ==
    [type |-> e.type, code |-> e.code, message |-> e.message, site |-> site]

\* What the relay can answer besides a result: a non-2xx HTTP answer, which
\* the provider raises as HTTPError, or a JSON-RPC error object, which web3
\* raises as ValueError carrying the object.
HttpErrors == {[type |-> "HTTPError", code |-> 500, message |-> "Internal Server Error"]}
JsonRpcErrors ==
    {[type |-> "ValueError", code |-> -32602, message |-> "invalid bundle"],
     [type |-> "ValueError", code |-> -32000, message |-> "internal error"]}
RelayErrors == HttpErrors \cup JsonRpcErrors
\* What a chain RPC call can raise instead of answering.
ChainErrors ==
    {[type |-> "ConnectionError", code |-> 0, message |-> "connection refused"],
     [type |-> "BadResponseFormat", code |-> 0, message |-> "malformed response"]}
TransactionNotFound ==
    [type |-> "TransactionNotFound", code |-> 0, message |-> "not found"]

\* What flashbots_getBundleStats / V2 can report about a bundle.
StatsValues == {"not_seen", "seen_by_builders"}

VARIABLES
    pc,               \* where the process is
    head,             \* the chain head (w3.eth.block_number would return it)
    nonce,            \* main: nonce
    bundle,           \* main: bundle
    block,            \* main: block
    replacement_uuid, \* main: replacement_uuid
    send_result,      \* main: send_result
    stats_v1,         \* main: stats_v1
    stats_v2,         \* main: stats_v2
    receipts,         \* main: receipts
    raised,           \* the exception raised last in main (None: none)
    printed,          \* what main has printed of targets, ids and outcomes
    sent,             \* the submissions the relay has received, in order
    heads_read,       \* the values line 143 has read, one per attempt
    issued,           \* the identifiers uuid4() has returned
    alt_stats_v1,     \* a second run's stats_v1: same inputs, other stats
    alt_stats_v2,     \* a second run's stats_v2
    alt_pc,           \* where the second run is
    sim_request,      \* simulate_bundle: the POST it is waiting on
    lifecycles        \* two further runs of main, side by side: where each
                      \* is, the head it read, what it has submitted

vars == <<pc, head, nonce, bundle, block, replacement_uuid, send_result,
          stats_v1, stats_v2, receipts, raised, printed, sent, heads_read,
          issued, alt_stats_v1, alt_stats_v2, alt_pc, sim_request, lifecycles>>

mainVars == <<nonce, bundle, block, replacement_uuid, send_result, stats_v1,
              stats_v2, receipts, raised, printed, sent, heads_read, issued,
              alt_stats_v1, alt_stats_v2>>
simVars == <<sim_request>>

\* ----------------------------------------------------------------- helpers
Last(s) == s[Len(s)]

\* The printed lines that carry message m, in order.
Lines(m) == SelectSeq(printed, LAMBDA l : l.msg = m)

\* --------------------------------------------------------- the transactions
\* CHAIN_ID = 5 if USE_SEPOLIA else 1, with USE_SEPOLIA = True
CHAIN_ID == 5

\* tx1 and tx2 of main: two type-2 transfers of 0.001 ether (1 unit here).
Transfer(n) ==
    [to |-> "receiver", value |-> 1, gas |-> 21000, maxFeePerGas |-> 200,
     maxPriorityFeePerGas |-> 50, nonce |-> n, chainId |-> CHAIN_ID, type |-> 2]

\* sender.sign_transaction(tx): the raw transaction is the fields under the
\* key's signature.
SignTransaction(tx, key) == [tx |-> tx, signed_by |-> key]

NoTx == [none |-> TRUE]

\* A variant: the two entries are listed the other way round.
BundleSwapped(n) ==
    << [kind |-> "transaction",
        signed_transaction |-> NoTx,
        signer |-> "sender", transaction |-> Transfer(n + 1)],
       [kind |-> "signed_transaction",
        signed_transaction |-> SignTransaction(Transfer(n), "sender"),
        signer |-> "none", transaction |-> NoTx] >>

\* A variant: the second entry names the reputation account as its signer.
BundleSignerMixed(n) ==
    << [kind |-> "signed_transaction",
        signed_transaction |-> SignTransaction(Transfer(n), "sender"),
        signer |-> "none", transaction |-> NoTx],
       [kind |-> "transaction",
        signed_transaction |-> NoTx,
        signer |-> "signer", transaction |-> Transfer(n + 1)] >>

\* bundle = [{"signed_transaction": ...}, {"signer": sender, "transaction": tx2}]
Bundle(n) ==
    << [kind |-> "signed_transaction",
        signed_transaction |-> SignTransaction(Transfer(n), "sender"),
        signer |-> "none", transaction |-> NoTx],
       [kind |-> "transaction",
        signed_transaction |-> NoTx,
        signer |-> "sender", transaction |-> Transfer(n + 1)] >>

\* send_bundle signs what is not signed yet, entry by entry and in order.
Resolve(b) ==
    [i \in 1..Len(b) |->
        IF b[i].kind = "signed_transaction"
            THEN b[i].signed_transaction
            ELSE SignTransaction(b[i].transaction, b[i].signer)]

\* The relay names a bundle by the hash of its signed transactions.
BundleHash(txs) == <<"keccak", txs>>

\* ------------------------------------------------------------- main's loop
\* A variant: the target is the next block, as the messages say.
TargetBlockNext(b) == b + ReportedOffset

\* target_block_number=block + 10
TargetBlock(b) == b + Lookahead

\* "Sending bundle targeting block {block+1}", "Bundle not found in block {block+1}"
ReportedTarget(b) == b + ReportedOffset

\* A variant: send_result.wait() is not called before the receipts are asked for.
NextStepNoWait(p) ==
    CASE p = "read_head" -> "send"
      [] p = "send"      -> "sleep"
      [] p = "sleep"     -> "stats_v1"
      [] p = "stats_v1"  -> "stats_v2"
      [] p = "stats_v2"  -> "receipts"
      [] p = "wait"      -> "receipts"

\* A variant: the stats are asked for right after sending, without the sleep.
NextStepNoSleep(p) ==
    CASE p = "read_head" -> "send"
      [] p = "send"      -> "stats_v1"
      [] p = "sleep"     -> "stats_v1"
      [] p = "stats_v1"  -> "stats_v2"
      [] p = "stats_v2"  -> "wait"
      [] p = "wait"      -> "receipts"

\* The statements of the loop body in the order written (lines 143-184):
\* the statement that follows statement p when p raises nothing.
NextStep(p) ==
    CASE p = "read_head" -> "send"
      [] p = "send"      -> "sleep"
      [] p = "sleep"     -> "stats_v1"
      [] p = "stats_v1"  -> "stats_v2"
      [] p = "stats_v2"  -> "wait"
      [] p = "wait"      -> "receipts"

\* A variant: a ceiling of two attempts; the second "not found" is given up on.
OnExceptionCeiling(site, e) ==
    IF site = "receipts" /\ e.type = "TransactionNotFound" /\ Len(sent) < 2
        THEN "read_head"
        ELSE "crashed"

\* A variant: no handler at all; TransactionNotFound leaves main too.
OnExceptionNoHandler(site, e) == "crashed"

\* A variant: an error of send_bundle is swallowed and the loop goes on.
OnExceptionRetryRelay(site, e) ==
    IF site = "send_bundle" \/ (site = "receipts" /\ e.type = "TransactionNotFound")
        THEN "read_head"
        ELSE "crashed"

\* A variant: `except Exception` in place of `except TransactionNotFound`.
OnExceptionCatchAll(site, e) ==
    IF site = "receipts" THEN "read_head" ELSE "crashed"

\* Where main goes when exception e is raised at a call: the only handler of
\* main is `except TransactionNotFound` around send_result.receipts(), and it
\* falls through to the next round of the loop; anything else leaves main.
OnException(site, e) ==
    IF site = "receipts" /\ e.type = "TransactionNotFound"
        THEN "read_head"
        ELSE "crashed"

\* A variant: the loop is left after the first round, found or not.
InclusionStepAbandons(rcpts, s1, s2) == "done"

\* A variant: the loop is left only if the relay's stats agree.
InclusionStepGated(rcpts, s1, s2) ==
    IF rcpts # << >> /\ s2 = "seen_by_builders"
        THEN "done"
        ELSE "read_head"

\* The end of a round: receipts() returned rcpts (then print and break), or
\* it raised TransactionNotFound (rcpts = << >>).  The two stats results are
\* in scope there and are not read.
InclusionStep(rcpts, s1, s2) ==
    IF rcpts # << >>
        THEN "done"
        ELSE OnException("receipts", TransactionNotFound)

\* A variant: the block reported is the block targeted.
MinedBlockReportedTarget(rcpts) == send_result.target_block_number

\* "Bundle was mined in block {receipts[0].blockNumber}"
MinedBlockReported(rcpts) == rcpts[1].blockNumber

\* A variant: one identifier, written into the program.
Uuid4Fixed == {1}

\* str(uuid4()): an identifier not handed out before.
Uuid4 == UUIDs \ issued

Say(m, v) == [msg |-> m, val |-> v]

\* send_result before the first send_bundle
NoSendResult == [bundle_hash |-> << >>, target_block_number |-> -1, txs |-> << >>]

locals == <<nonce, bundle, block, replacement_uuid, send_result, stats_v1, stats_v2,
            receipts, alt_stats_v1, alt_stats_v2>>

\* main is left (by an exception nothing handles, or by returning): its
\* frame, and with it its local variables, is gone.
FrameGone ==
    /\ nonce' = -1
    /\ bundle' = << >>
    /\ block' = -1
    /\ replacement_uuid' = 0
    /\ send_result' = NoSendResult
    /\ stats_v1' = "unset"
    /\ stats_v2' = "unset"
    /\ receipts' = << >>
    /\ alt_stats_v1' = "unset"
    /\ alt_stats_v2' = "unset"

\* Exception e is raised at a call of main.
Raise(site, e) ==
    /\ raised' = Exc(e, site)
    /\ pc' = OnException(site, e)
    /\ alt_pc' = pc'
    /\ IF pc' = "crashed" THEN FrameGone ELSE UNCHANGED locals

\* main, lines 76-138: attach the relay, read the balances and the nonce,
\* build and pre-sign, assemble the bundle.
Setup(n) ==
    /\ pc = "idle"
    /\ nonce' = n
    /\ bundle' = Bundle(n)
    /\ printed' = printed
    /\ pc' = "read_head"
    /\ alt_pc' = pc'
    /\ UNCHANGED <<head, block, replacement_uuid, send_result, stats_v1, stats_v2,
                   receipts, raised, sent, heads_read, issued, alt_stats_v1,
                   alt_stats_v2, sim_request, lifecycles>>

\* A chain RPC call of lines 97-107 raises.
SetupFails(e) ==
    /\ pc = "idle"
    /\ Raise("setup", e)
    /\ UNCHANGED <<head, printed, sent, heads_read, issued, sim_request, lifecycles>>

\* A variant: the head is read before the loop, once.
ReadHeadOnce ==
    /\ pc = "read_head"
    /\ Len(sent) < MaxAttempts
    /\ block' = IF heads_read = << >> THEN head ELSE heads_read[1]
    /\ heads_read' = Append(heads_read, block')
    /\ raised' = None
    /\ printed' = printed
    /\ pc' = NextStep("read_head")
    /\ alt_pc' = pc'
    /\ UNCHANGED <<head, nonce, bundle, replacement_uuid, send_result, stats_v1,
                   stats_v2, receipts, sent, issued, alt_stats_v1, alt_stats_v2,
                   sim_request, lifecycles>>

\* lines 143-144: block = w3.eth.block_number
ReadHead ==
    /\ pc = "read_head"
    /\ Len(sent) < MaxAttempts
    /\ block' = head
    /\ heads_read' = Append(heads_read, head)
    /\ raised' = None
    /\ printed' = printed
    /\ pc' = NextStep("read_head")
    /\ alt_pc' = pc'
    /\ UNCHANGED <<head, nonce, bundle, replacement_uuid, send_result, stats_v1,
                   stats_v2, receipts, sent, issued, alt_stats_v1, alt_stats_v2, sim_request, lifecycles>>

ReadHeadFails(e) ==
    /\ pc = "read_head"
    /\ Len(sent) < MaxAttempts
    /\ Raise("block_number", e)
    /\ UNCHANGED <<head, printed, sent, heads_read, issued, sim_request, lifecycles>>

\* flashbot(w3, signer, ...) (lines 89-92): the relay calls of w3.flashbots
\* are authenticated with this key.
AuthKey == "signer"

\* A variant: the bundle is built anew in every round, from a nonce that
\* counts the submissions made.
SubmissionRederived(u) ==
    [txs |-> Resolve(Bundle(nonce + Len(sent))), target |-> TargetBlock(block),
     replacementUuid |-> u, bundle |-> Bundle(nonce + Len(sent)),
     authenticated_by |-> AuthKey]

\* The request send_bundle makes: the bundle handed over and what it resolves
\* to, the target, the options, and the key that authenticates the call.
Submission(u) ==
    [txs |-> Resolve(bundle), target |-> TargetBlock(block), replacementUuid |-> u,
     bundle |-> bundle, authenticated_by |-> AuthKey]

\* lines 159-168, the relay accepting: print the target, draw the identifier,
\* send, print the hash.
SendBundle(u) ==
    /\ pc = "send"
    /\ u \in Uuid4
    /\ replacement_uuid' = u
    /\ issued' = issued \cup {u}
    /\ sent' = Append(sent, Submission(u))
    /\ send_result' = [bundle_hash |-> BundleHash(Resolve(bundle)),
                       target_block_number |-> TargetBlock(block),
                       txs |-> Resolve(bundle)]
    /\ printed' = printed \o
            << Say("Sending bundle targeting block", ReportedTarget(block)),
               Say("replacementUuid", u),
               Say("bundleHash", BundleHash(Resolve(bundle))) >>
    /\ pc' = NextStep("send")
    /\ alt_pc' = pc'
    /\ UNCHANGED <<head, nonce, bundle, block, stats_v1, stats_v2, receipts, raised,
                   heads_read, alt_stats_v1, alt_stats_v2, sim_request, lifecycles>>

\* lines 159-167, the relay answering with an error: send_bundle raises.
SendBundleFails(u, e) ==
    /\ pc = "send"
    /\ u \in Uuid4
    /\ issued' = issued \cup {u}
    /\ sent' = Append(sent, Submission(u))
    /\ printed' = printed \o
            << Say("Sending bundle targeting block", ReportedTarget(block)),
               Say("replacementUuid", u) >>
    /\ raised' = Exc(e, "send_bundle")
    /\ pc' = OnException("send_bundle", e)
    /\ alt_pc' = pc'
    /\ IF pc' = "crashed"
         THEN FrameGone
         ELSE /\ replacement_uuid' = u
              /\ UNCHANGED <<nonce, bundle, block, send_result, stats_v1, stats_v2,
                             receipts, alt_stats_v1, alt_stats_v2>>
    /\ UNCHANGED <<head, heads_read, sim_request, lifecycles>>

\* line 170: time.sleep(12)
Sleep ==
    /\ pc = "sleep"
    /\ pc' = NextStep("sleep")
    /\ alt_pc' = pc'
    /\ UNCHANGED <<head, mainVars, simVars, lifecycles>>

\* lines 172-175.  The second run is answered a, this one s.
GetBundleStats(s, a) ==
    /\ pc = "stats_v1"
    /\ stats_v1' = s
    /\ alt_stats_v1' = a
    /\ printed' = printed
    /\ pc' = NextStep("stats_v1")
    /\ alt_pc' = pc'
    /\ UNCHANGED <<head, nonce, bundle, block, replacement_uuid, send_result,
                   stats_v2, receipts, raised, sent, heads_read, issued,
                   alt_stats_v2, sim_request, lifecycles>>

GetBundleStatsFails(e) ==
    /\ pc = "stats_v1"
    /\ Raise("get_bundle_stats", e)
    /\ UNCHANGED <<head, printed, sent, heads_read, issued, sim_request, lifecycles>>

\* lines 177-180
GetBundleStatsV2(s, a) ==
    /\ pc = "stats_v2"
    /\ stats_v2' = s
    /\ alt_stats_v2' = a
    /\ printed' = printed
    /\ pc' = NextStep("stats_v2")
    /\ alt_pc' = pc'
    /\ UNCHANGED <<head, nonce, bundle, block, replacement_uuid, send_result,
                   stats_v1, receipts, raised, sent, heads_read, issued,
                   alt_stats_v1, sim_request, lifecycles>>

GetBundleStatsV2Fails(e) ==
    /\ pc = "stats_v2"
    /\ Raise("get_bundle_stats_v2", e)
    /\ UNCHANGED <<head, printed, sent, heads_read, issued, sim_request, lifecycles>>

\* line 182: send_result.wait() returns once the head has reached the target.
Wait ==
    /\ pc = "wait"
    /\ head >= send_result.target_block_number
    /\ pc' = NextStep("wait")
    /\ alt_pc' = pc'
    /\ UNCHANGED <<head, mainVars, simVars, lifecycles>>

\* line 182: a poll of the head raises.
WaitFails(e) ==
    /\ pc = "wait"
    /\ Raise("wait", e)
    /\ UNCHANGED <<head, printed, sent, heads_read, issued, sim_request, lifecycles>>

\* The blocks a receipt of this round can name: after the head read, up to
\* the target.
BlockRange ==
    {b \in (block + 1)..TargetBlock(block) : b <= block + MinedSpan}

\* What the chain answers for the bundle's transactions: for each, the block
\* that holds its receipt, or 0 for none.
ChainAnswers == [1..Len(send_result.txs) -> {0} \cup BlockRange]

\* send_result.receipts(): the receipts found, in the bundle's order.
FoundReceipts(ans) ==
    LET idx == SelectSeq([i \in 1..Len(send_result.txs) |-> i],
                         LAMBDA i : ans[i] # 0)
    IN  [k \in 1..Len(idx) |->
            [transactionIndex |-> idx[k], blockNumber |-> ans[idx[k]]]]

\* lines 183-188, the chain answering.
Receipts(ans) ==
    /\ pc = "receipts"
    /\ LET rcpts == FoundReceipts(ans)
           nxt == InclusionStep(rcpts, stats_v1, stats_v2)
       IN  /\ pc' = nxt
           /\ alt_pc' = InclusionStep(rcpts, alt_stats_v1, alt_stats_v2)
           /\ IF rcpts # << >>
                THEN /\ receipts' = rcpts
                     /\ raised' = raised
                     /\ printed' = Append(printed,
                            Say("Bundle was mined in block", MinedBlockReported(rcpts)))
                ELSE /\ receipts' = receipts
                     /\ raised' = Exc(TransactionNotFound, "receipts")
                     /\ printed' = Append(printed,
                            Say("Bundle not found in block", ReportedTarget(block)))
    /\ UNCHANGED <<head, nonce, bundle, block, replacement_uuid, send_result,
                   stats_v1, stats_v2, sent, heads_read, issued, alt_stats_v1,
                   alt_stats_v2, sim_request, lifecycles>>

\* line 184: the chain RPC fails under receipts().
ReceiptsFails(e) ==
    /\ pc = "receipts"
    /\ Raise("receipts", e)
    /\ UNCHANGED <<head, printed, sent, heads_read, issued, sim_request, lifecycles>>

\* lines 194-199: the two balances, then main returns.
Epilogue ==
    /\ pc = "done"
    /\ pc' = "exited"
    /\ alt_pc' = pc'
    /\ FrameGone
    /\ UNCHANGED <<head, raised, printed, sent, heads_read, issued, sim_request, lifecycles>>

EpilogueFails(e) ==
    /\ pc = "done"
    /\ Raise("get_balance", e)
    /\ UNCHANGED <<head, printed, sent, heads_read, issued, sim_request, lifecycles>>

\* --------------------------------------------------------- simulate_bundle
HexDigits == <<"0", "1", "2", "3", "4", "5", "6", "7", "8", "9",
               "a", "b", "c", "d", "e", "f">>

RECURSIVE HexOf(_)
HexOf(n) == IF n < 16 THEN <<HexDigits[n + 1]>>
            ELSE Append(HexOf(n \div 16), HexDigits[(n % 16) + 1])

\* w3.toHex(n) for a block number
ToHex(n) == <<"0x">> \o HexOf(n)

\* lines 50-61: the JSON-RPC request, keys in the order written
CallBundleData(bndl, target_blk_num) ==
    << <<"jsonrpc", "2.0">>, <<"id", 0>>, <<"method", "eth_callBundle">>,
       <<"params", << << <<"txs", bndl>>,
                         <<"blockNumber", ToHex(target_blk_num)>>,
                         <<"stateBlockNumber", "latest">> >> >> >> >>

\* json.dumps(data): the text of the request
JsonDumps(data) == <<"json", data>>

\* Web3.keccak(text=body).hex()
Keccak(text) == <<"keccak256", text>>

\* messages.encode_defunct(text=...): the personal-message envelope
EncodeDefunct(text) == <<"\\x19Ethereum Signed Message:", text>>

\* Account.sign_message(message, key).signature.hex()
SignMessage(message, key) == [message |-> message, signed_by |-> key]

AddressOf(key) == <<"address", key>>

\* requests.post(url, data=body, headers=headers): no timeout is passed, and
\* requests then waits for the answer without limit.
NoTimeout == "None"

\* A variant: the signature is made once, over the first body, and reused.
SimulateRequestStale(bndl, target_blk_num) ==
    LET body == JsonDumps(CallBundleData(bndl, target_blk_num))
        message == EncodeDefunct(Keccak(JsonDumps(CallBundleData(<< >>, 9))))
        signature == <<AddressOf("signer"), ":", SignMessage(message, "signer")>>
    IN  [url |-> "https://relay-sepolia.flashbots.net",
         data |-> body,
         headers |-> [ContentType |-> "application/json",
                      XFlashbotsSignature |-> signature],
         timeout |-> NoTimeout]

\* lines 47-72: the POST simulate_bundle makes
SimulateRequest(bndl, target_blk_num) ==
    LET body == JsonDumps(CallBundleData(bndl, target_blk_num))
        message == EncodeDefunct(Keccak(body))
        signature == <<AddressOf("signer"), ":", SignMessage(message, "signer")>>
    IN  [url |-> "https://relay-sepolia.flashbots.net",
         data |-> body,
         headers |-> [ContentType |-> "application/json",
                      XFlashbotsSignature |-> signature],
         timeout |-> NoTimeout]

\* No call of simulate_bundle is under way.
NoRequest ==
    [url |-> "", data |-> << >>,
     headers |-> [ContentType |-> "", XFlashbotsSignature |-> << >>],
     timeout |-> NoTimeout]

\* The arguments simulate_bundle is called with here.
SimBundles == { <<>>, <<"0x02aa">>, <<"0x02aa", "0x02bb">> }
SimTargets == {9, 10, 26}

\* simulate_bundle(bundle, target_blk_num), up to the POST (lines 46-72)
SimulatePost(bndl, t) ==
    /\ pc = "idle"
    /\ sim_request' = SimulateRequest(bndl, t)
    /\ pc' = "sim_post"
    /\ alt_pc' = pc'
    /\ UNCHANGED <<head, mainVars, lifecycles>>

\* the relay answers, and simulate_bundle returns response.json() to its
\* caller (line 73)
SimulateReturn ==
    /\ pc = "sim_post"
    /\ sim_request' = NoRequest
    /\ pc' = "idle"
    /\ alt_pc' = pc'
    /\ UNCHANGED <<head, mainVars, lifecycles>>

\* ---------------------------------------------------------------- the chain
\* A block is produced (followed while the process runs).
NewBlock ==
    /\ head < MaxHead
    /\ pc \notin {"exited", "crashed"}
    /\ head' = head + 1
    /\ UNCHANGED <<pc, alt_pc, mainVars, simVars, lifecycles>>

\* ------------------------------------------------- two lifecycles of main
\* Two runs of main, one after the other or interleaved.  Each has its own
\* frame; they share the chain, and the identifiers uuid4() has handed out
\* are handed out to neither again.
Lifecycles == {"a", "b"}

\* pc: where the run is; block: the head it read for the round under way;
\* target_block_number: what its send_result waits for; sent: the
\* identifiers of its submissions, in order.
NotStarted == [pc |-> "idle", block |-> -1, target_block_number |-> -1,
               sent |-> << >>]

\* Everything of the single run, which stands still meanwhile.
soloVars == <<pc, alt_pc, nonce, bundle, block, replacement_uuid, send_result,
              stats_v1, stats_v2, receipts, raised, printed, sent, heads_read,
              alt_stats_v1, alt_stats_v2, sim_request>>

\* lines 76-138
RunSetup(l) ==
    /\ lifecycles[l].pc = "idle"
    /\ lifecycles' = [lifecycles EXCEPT ![l].pc = "read_head"]
    /\ UNCHANGED <<head, issued, soloVars>>

\* lines 143-144
RunReadHead(l) ==
    /\ lifecycles[l].pc = "read_head"
    /\ Len(lifecycles[l].sent) < MaxAttempts
    /\ lifecycles' = [lifecycles EXCEPT ![l].block = head,
                                        ![l].pc = NextStep("read_head")]
    /\ UNCHANGED <<head, issued, soloVars>>

\* lines 159-168
RunSendBundle(l, u) ==
    /\ lifecycles[l].pc = "send"
    /\ u \in Uuid4
    /\ issued' = issued \cup {u}
    /\ lifecycles' = [lifecycles EXCEPT
          ![l].sent = Append(@, [replacementUuid |-> u]),
          ![l].target_block_number = TargetBlock(lifecycles[l].block),
          ![l].block = -1,
          ![l].pc = NextStep("send")]
    /\ UNCHANGED <<head, soloVars>>

\* lines 170-180: the sleep and the two stats queries
RunSleepAndStats(l) ==
    /\ lifecycles[l].pc = "sleep"
    /\ lifecycles' = [lifecycles EXCEPT
          ![l].pc = NextStep(NextStep(NextStep("sleep")))]
    /\ UNCHANGED <<head, issued, soloVars>>

\* line 182
RunWait(l) ==
    /\ lifecycles[l].pc = "wait"
    /\ head >= lifecycles[l].target_block_number
    /\ lifecycles' = [lifecycles EXCEPT ![l].pc = NextStep("wait"),
                                        ![l].target_block_number = -1]
    /\ UNCHANGED <<head, issued, soloVars>>

\* lines 183-188: found (print, break) or TransactionNotFound (next round)
RunReceipts(l, found) ==
    /\ lifecycles[l].pc = "receipts"
    /\ lifecycles' = [lifecycles EXCEPT
          ![l].pc = IF found THEN "done"
                             ELSE OnException("receipts", TransactionNotFound)]
    /\ UNCHANGED <<head, issued, soloVars>>

\* A call of the run raises what no handler catches: the run is over.
RunRaises(l, site, e) ==
    /\ \/ site = "block_number" /\ lifecycles[l].pc = "read_head"
       \/ site = "wait" /\ lifecycles[l].pc = "wait"
       \/ site = "receipts" /\ lifecycles[l].pc = "receipts"
    /\ lifecycles' = [lifecycles EXCEPT ![l].pc = OnException(site, e),
                                        ![l].block = -1,
                                        ![l].target_block_number = -1]
    /\ UNCHANGED <<head, issued, soloVars>>

NextTwo ==
    \/ NewBlock
    \/ \E l \in Lifecycles : RunSetup(l)
    \/ \E l \in Lifecycles : RunReadHead(l)
    \/ \E l \in Lifecycles, u \in UUIDs : RunSendBundle(l, u)
    \/ \E l \in Lifecycles : RunSleepAndStats(l)
    \/ \E l \in Lifecycles : RunWait(l)
    \/ \E l \in Lifecycles, found \in BOOLEAN : RunReceipts(l, found)
    \/ \E l \in Lifecycles, site \in {"block_number", "wait", "receipts"},
          e \in ChainErrors : RunRaises(l, site, e)

\* ------------------------------------------------------------ specification
Init ==
    /\ pc = "idle"
    /\ alt_pc = "idle"
    /\ head = 1
    /\ nonce = -1
    /\ bundle = << >>
    /\ block = -1
    /\ replacement_uuid = 0
    /\ send_result = NoSendResult
    /\ stats_v1 = "unset"
    /\ stats_v2 = "unset"
    /\ alt_stats_v1 = "unset"
    /\ alt_stats_v2 = "unset"
    /\ receipts = << >>
    /\ raised = None
    /\ printed = << >>
    /\ sent = << >>
    /\ heads_read = << >>
    /\ issued = {}
    /\ sim_request = NoRequest
    /\ lifecycles = [l \in Lifecycles |-> NotStarted]

Next ==
    \/ NewBlock
    \/ \E n \in Nonces : Setup(n)
    \/ \E e \in ChainErrors : SetupFails(e)
    \/ ReadHead
    \/ \E e \in ChainErrors : ReadHeadFails(e)
    \/ \E u \in UUIDs : SendBundle(u)
    \/ \E u \in UUIDs, e \in RelayErrors : SendBundleFails(u, e)
    \/ Sleep
    \/ \E s, a \in StatsValues : GetBundleStats(s, a)
    \/ \E e \in RelayErrors : GetBundleStatsFails(e)
    \/ \E s, a \in StatsValues : GetBundleStatsV2(s, a)
    \/ \E e \in RelayErrors : GetBundleStatsV2Fails(e)
    \/ Wait
    \/ \E e \in ChainErrors : WaitFails(e)
    \/ \E ans \in ChainAnswers : Receipts(ans)
    \/ \E e \in ChainErrors : ReceiptsFails(e)
    \/ Epilogue
    \/ \E e \in ChainErrors : EpilogueFails(e)
    \/ \E bndl \in SimBundles, t \in SimTargets : SimulatePost(bndl, t)
    \/ SimulateReturn

Spec == Init /\ [][Next]_vars

\* The two lifecycles, from the same beginning.
SpecTwo == Init /\ [][NextTwo]_vars

\* ================================================================= claims

\* C1: within one lifecycle every attempt after the first submits with the
\* replacementUuid of the attempt before it.
C1_SameReplacementUuid ==
    \A i \in 1..(Len(sent) - 1) :
        sent[i + 1].replacementUuid = sent[i].replacementUuid

C3_NotFoundRebuilds ==
    [][ /\ (pc = "receipts" /\ raised'.type = "TransactionNotFound")
            => (pc' = "read_head" /\ sent' = sent)
        /\ (pc = "read_head" /\ raised.type = "TransactionNotFound" /\ pc' = "send")
            => (block' = head /\ Len(heads_read') = Len(sent) + 1)
        /\ (pc = "send" /\ Len(sent) >= 1 /\ Len(sent') = Len(sent) + 1)
            => (Last(sent').target = block + 10 /\ block = Last(heads_read))
      ]_vars

C3_Witness ==
    /\ Len(Lines("Bundle not found in block")) = 1
    /\ Len(sent) = 2
    /\ pc = "sleep"
    /\ sent[2].target > sent[1].target

\* C4: when the inclusion check finds a receipt for any transaction of the
\* bundle, the loop is left (Included), the block reported is the block of a
\* receipt found (of the one found, when it is one), and no send_bundle
\* follows.
C4_FoundIsIncluded ==
    [][ /\ (pc = "receipts" /\ receipts' # << >>)
            => /\ pc' = "done"
               /\ Last(printed').msg = "Bundle was mined in block"
               /\ \E k \in 1..Len(receipts') :
                      Last(printed').val = receipts'[k].blockNumber
               /\ Len(receipts') = 1
                      => Last(printed').val = receipts'[1].blockNumber
        /\ (pc \in {"done", "exited"})
            => (sent' = sent /\ pc' \in {"done", "exited", "crashed"})
      ]_vars

C4_Witness ==
    /\ pc = "done"
    /\ Len(receipts) = 1
    /\ receipts[1].transactionIndex = 2
    /\ Last(printed).msg = "Bundle was mined in block"
    /\ Last(printed).val = receipts[1].blockNumber

\* C5: a relay call that fails with a transport error (HTTP 500) does not end
\* the process: the loop goes on.
C5_TransportErrorContinues ==
    (raised.type = "HTTPError") => (pc # "crashed")

\* C6: a JSON-RPC error answered to send_bundle leaves main as the exception
\* that carries it, and no send_bundle follows it.
C6_ProtocolErrorSurfaced ==
    [][ /\ (pc = "send" /\ raised'.type = "ValueError")
            => (pc' = "crashed" /\ raised'.site = "send_bundle")
        /\ (raised.type = "ValueError" /\ raised.site = "send_bundle")
            => (sent' = sent /\ raised' = raised /\ pc' = "crashed")
      ]_vars

C6_Witness ==
    /\ pc = "crashed"
    /\ raised = [type |-> "ValueError", code |-> -32602,
                 message |-> "invalid bundle", site |-> "send_bundle"]
    /\ Len(sent) = 1

\* C7: in the inclusion check only TransactionNotFound leads back to the head
\* of the loop; a failure of the chain RPC there ends main with that
\* exception, and no "not found" is reported.
C7_OnlyNotFoundRetries ==
    [][ /\ (pc \in {"wait", "receipts"} /\ pc' = "read_head")
            => (raised'.type = "TransactionNotFound" /\ raised'.site = "receipts")
        /\ (pc \in {"wait", "receipts"} /\ raised' # raised
                /\ raised'.type \in {e.type : e \in ChainErrors})
            => (pc' = "crashed" /\ printed' = printed)
      ]_vars

C7_Witness ==
    /\ pc = "crashed"
    /\ raised.site = "receipts"
    /\ raised.type = "ConnectionError"
    /\ Len(Lines("Bundle not found in block")) = 0

\* C8: the target block the process reports for an attempt, in "Sending
\* bundle targeting block" and in "Bundle not found in block", is the target
\* passed to send_bundle in that attempt.
C8_ReportedTargetIsTarget ==
    /\ \A i \in 1..Len(sent) :
          i <= Len(Lines("Sending bundle targeting block"))
            => Lines("Sending bundle targeting block")[i].val = sent[i].target
    /\ \A j \in 1..Len(Lines("Bundle not found in block")) :
          Lines("Bundle not found in block")[j].val = sent[j].target

\* C9: a second run that is given the same inputs and other results of the
\* two stats queries is always where this run is.
C9_StatsDoNotGate == alt_pc = pc

C9_Witness ==
    /\ pc = "done"
    /\ alt_pc = "done"
    /\ stats_v1 # alt_stats_v1
    /\ stats_v2 # alt_stats_v2
    /\ Len(sent) = 2

\* C10: every network call has a timeout; here, the POST of simulate_bundle
\* while it waits for the relay.
C10_EveryCallHasTimeout ==
    (pc = "sim_post") => (sim_request.timeout # NoTimeout)

\* The rounds that ended in "Bundle not found in block".
NotFoundCount == Len(Lines("Bundle not found in block"))

\* A receipt was found: "Bundle was mined in block" was printed.
Included == Len(Lines("Bundle was mined in block")) = 1

\* C11: with no ceiling in the program, a round that ends in "not found" is
\* followed by another one: the step that reports it leads to the head of the
\* loop, where the next round starts by reading the head (or the read fails);
\* as long as no receipt was found and no call failed, main is in no terminal
\* state, whatever the number of rounds.
C11_RetriesWithoutCeiling ==
    /\ (raised.type \in {"None", "TransactionNotFound"} /\ ~Included)
          => pc \notin {"done", "exited", "crashed"}
    /\ (pc = "read_head") => NotFoundCount = Len(heads_read)
    /\ (pc \in {"send", "sleep", "stats_v1", "stats_v2", "wait", "receipts"})
          => Len(heads_read) = NotFoundCount + 1

C11_Witness ==
    /\ NotFoundCount = 2
    /\ pc = "read_head"
    /\ raised.type = "TransactionNotFound"
    /\ Len(sent) = 2

\* C12 as claimed: every end of the retry loop is the Included state.
C12_EveryEndIsIncluded ==
    (pc \in {"done", "exited", "crashed"} /\ raised.site # "setup") => Included

\* C12 as amended: the loop has no exit that gives up: it is left by break
\* after a receipt was found, or by the exception of a failed chain or relay
\* call that main does not handle, never by "not found".
C12_NoAbandonedExit ==
    /\ (pc \in {"done", "exited"}) => Included
    /\ (pc = "crashed")
          => (raised.type \in {e.type : e \in ChainErrors \cup RelayErrors}
              /\ raised.site # "")
    /\ (pc = "crashed" /\ ~Included)
          => raised.site \in {"setup", "block_number", "send_bundle",
                              "get_bundle_stats", "get_bundle_stats_v2",
                              "wait", "receipts"}

C12_Witness ==
    /\ pc = "crashed"
    /\ raised.site = "get_bundle_stats_v2"
    /\ NotFoundCount = 1
    /\ ~Included

\* C13: the inclusion check of an attempt is made, its "not found" reported
\* and the next attempt started only when the chain head has reached the
\* attempt's target block.
C13_CheckAfterTarget ==
    /\ (pc = "receipts") => head >= Last(sent).target
    /\ (pc \in {"read_head", "done"} /\ Len(sent) >= 1) => head >= Last(sent).target
    /\ \A i \in 1..Len(heads_read) :
          (i >= 2) => heads_read[i] >= sent[i - 1].target

C13_Witness ==
    /\ pc = "read_head"
    /\ NotFoundCount = 1
    /\ head = sent[1].target

\* C14: the steps of an attempt follow one another in the order read head,
\* send_bundle, sleep, get_bundle_stats, get_bundle_stats_v2, wait, receipts;
\* a send_bundle is made only in its place, once, and only when every earlier
\* submission's inclusion check has ended in "not found".
LoopOrder ==
    { <<"read_head", "send">>, <<"send", "sleep">>, <<"sleep", "stats_v1">>,
      <<"stats_v1", "stats_v2">>, <<"stats_v2", "wait">>, <<"wait", "receipts">>,
      <<"receipts", "read_head">>, <<"receipts", "done">> }

C14_StepsInOrder ==
    [][ /\ (pc' # pc /\ pc \notin {"idle", "sim_post", "done"} /\ pc' # "crashed")
            => <<pc, pc'>> \in LoopOrder
        /\ (sent' # sent)
            => /\ pc = "send"
               /\ Len(sent') = Len(sent) + 1
               /\ NotFoundCount = Len(sent)
        /\ (pc = "send" /\ pc' # pc) => Len(sent') = Len(sent) + 1
      ]_vars

C14_Witness ==
    /\ pc = "receipts"
    /\ Len(sent) = 2
    /\ NotFoundCount = 1
    /\ stats_v1 # "unset"
    /\ stats_v2 # "unset"

\* C15: every attempt submits the same two transactions, with nonces n and
\* n + 1, n being the transaction count read before the loop; nothing of them
\* changes from one attempt to the next.
C15_NoncesFixedAtBuild ==
    /\ \A i \in 1..Len(sent) :
          /\ sent[i].txs = sent[1].txs
          /\ Len(sent[i].txs) = 2
          /\ sent[i].txs[1].tx.nonce \in Nonces
          /\ sent[i].txs[2].tx.nonce = sent[i].txs[1].tx.nonce + 1
          /\ (nonce # -1) => sent[i].txs[1].tx.nonce = nonce
          /\ \A k \in 1..2 :
                sent[i].txs[k].tx = Transfer(sent[i].txs[k].tx.nonce)
    /\ (pc \in {"read_head", "send", "sleep", "stats_v1", "stats_v2", "wait",
                "receipts", "done"}) => nonce \in Nonces

C15_Witness ==
    /\ Len(sent) = 2
    /\ nonce = 7
    /\ sent[1].txs[1].tx.nonce = 7
    /\ sent[2].txs[1].tx.nonce = 7
    /\ sent[2].txs[2].tx.nonce = 8

\* C16: in every attempt the bundle handed to send_bundle has the two entries
\* assembled, in the order assembled: first the pre-signed transaction with
\* nonce n, then the transaction to be signed with nonce n + 1.
C16_BundleHandedAsAssembled ==
    \A i \in 1..Len(sent) :
        /\ Len(sent[i].bundle) = 2
        /\ sent[i].bundle[1].kind = "signed_transaction"
        /\ sent[i].bundle[2].kind = "transaction"
        /\ sent[i].bundle[1].signed_transaction.tx.nonce \in Nonces
        /\ sent[i].bundle[2].transaction.nonce
              = sent[i].bundle[1].signed_transaction.tx.nonce + 1
        /\ sent[i].bundle = sent[1].bundle
        /\ (bundle # << >>) => sent[i].bundle = bundle

C16_Witness ==
    /\ Len(sent) = 2
    /\ pc = "wait"
    /\ sent[2].bundle[1].kind = "signed_transaction"
    /\ sent[2].bundle[1].signed_transaction.tx.nonce = 0
    /\ sent[2].bundle[2].transaction.nonce = 1

\* The header a request with this body must carry: the reputation address,
\* and that key's signature over the personal message of the body's hash.
ExpectedSignature(body) ==
    <<AddressOf("signer"), ":",
      SignMessage(EncodeDefunct(Keccak(body)), "signer")>>

\* C17: the request simulate_bundle sends carries X-Flashbots-Signature
\* <signer address>:<signature>, the signature being over the hash of the
\* body transmitted; a request with another body would carry another one.
C17_SignatureOverBodySent ==
    (pc = "sim_post") =>
        /\ sim_request.headers.XFlashbotsSignature
              = ExpectedSignature(sim_request.data)
        /\ \A b \in SimBundles, t \in SimTargets :
              (SimulateRequest(b, t).data # sim_request.data)
                 => SimulateRequest(b, t).headers.XFlashbotsSignature
                       # sim_request.headers.XFlashbotsSignature

C17_Witness ==
    /\ pc = "sim_post"
    /\ sim_request.data = JsonDumps(CallBundleData(<<"0x02aa", "0x02bb">>, 26))
    /\ sim_request.headers.XFlashbotsSignature[1] = AddressOf("signer")

\* C18: the reputation key (signer) only authenticates relay requests and
\* signs no bundle transaction; the funded key (sender) only signs bundle
\* transactions and authenticates no relay request.
C18_KeysNotMixed ==
    /\ \A i \in 1..Len(sent) :
          /\ sent[i].authenticated_by = "signer"
          /\ \A k \in 1..Len(sent[i].txs) : sent[i].txs[k].signed_by = "sender"
    /\ (pc = "sim_post") =>
          /\ sim_request.headers.XFlashbotsSignature[1] = AddressOf("signer")
          /\ sim_request.headers.XFlashbotsSignature[3].signed_by = "signer"
    /\ (bundle # << >>) =>
          \A k \in 1..Len(bundle) :
              IF bundle[k].kind = "signed_transaction"
                  THEN bundle[k].signed_transaction.signed_by = "sender"
                  ELSE bundle[k].signer = "sender"

C18_Witness ==
    /\ pc = "sleep"
    /\ Len(sent) = 1
    /\ sent[1].authenticated_by = "signer"
    /\ sent[1].txs[1].signed_by = "sender"
    /\ sent[1].txs[2].signed_by = "sender"

C20_TargetsApartByLookahead ==
    /\ \A i \in 1..(Len(sent) - 1) : sent[i + 1].target >= sent[i].target + 10
    /\ \A i, j \in 1..Len(sent) : (i # j) => sent[i].target # sent[j].target

C20_Witness ==
    /\ Len(sent) = 2
    /\ sent[2].target >= sent[1].target + 10
    /\ heads_read[2] > heads_read[1]

====
